---- MODULE Spec2Model ----
(***************************************************************************)
(* Installment / valuation / lock-availability engine of the investment    *)
(* tracker (src/src/utils/calculations.ts) and the components that call    *)
(* it.                                                                     *)
(*                                                                         *)
(* Representation.                                                         *)
(*  - A JavaScript Date is a record [y, m, d, t]: the local calendar date  *)
(*    and t, the minutes elapsed since local midnight.                     *)
(*    A 'YYYY-MM-DD' string is a record [y, m, d].                         *)
(*  - tz is the host's offset from UTC in minutes (toISOString and         *)
(*    new Date('YYYY-MM-DD') are UTC, parseISO of a date-only string is    *)
(*    local).                                                              *)
(*  - Money is an integer number of 1/MoneyScale currency units; powers of *)
(*    (1 + monthlyRate) are integers scaled by PowScale.                   *)
(*  - lock_period_years is stored in 1/LockScale years.                    *)
(***************************************************************************)
EXTENDS Integers, Sequences, FiniteSets, TLC

VARIABLES
    sip,                \* the plan row being evaluated
    clock,              \* the wall clock: what `new Date()` returns now
    tz,                 \* host offset from UTC, minutes
    ticks,              \* how often the clock has advanced
    pc,                 \* position of the running evaluation
    now,                \* calculateInstallmentsPaid: const now = new Date()
    totalInstallments,  \* calculateAvailableWithdrawal locals ...
    totalValue,
    endDate,
    i,
    availableAmount,
    lockedAmount,
    installments,
    today,              \* isInstallmentLocked: const today, one per iteration
    result,             \* the object calculateAvailableWithdrawal returns
    installmentsPaid,   \* SIPRow locals
    totalInvested,
    expectedValue,
    lockArgs,           \* arguments of a direct call of the lock functions
    lockRet,            \* what that call returned
    sipsTable,          \* table sips: the stored plan rows
    withdrawalsTable,   \* table withdrawals: the stored withdrawal rows
    formData,           \* useState formData of the form that stayed open
    formErrors,         \* useState errors / error of that form
    summary,            \* what calculatePortfolioSummary returned last
    shown,              \* what the previous evaluation of the plan returned
    user,               \* AuthProvider: useState user (the id, or NoUser)
    subscribedUser,     \* the user the subscribed auth callback closes over
    authSession,        \* the session the Supabase client holds
    authEvents,         \* auth notifications not yet delivered
    getSessionPending,  \* getInitialSession is awaiting getSession()
    queryCache,         \* whose rows the query cache holds
    authSteps           \* how many sign-ins and sign-outs have happened

vars == << sip, clock, tz, ticks, pc, now, totalInstallments, totalValue,
           endDate, i, availableAmount, lockedAmount, installments, today,
           result, installmentsPaid, totalInvested, expectedValue,
           lockArgs, lockRet, sipsTable, withdrawalsTable, formData,
           formErrors, summary, shown, user, subscribedUser, authSession,
           authEvents, getSessionPending, queryCache, authSteps >>

\* the locals of one evaluation of a plan
evalVars == << sip, now, totalInstallments, totalValue, endDate, i,
               availableAmount, lockedAmount, installments, today, result,
               installmentsPaid, totalInvested, expectedValue >>

lockVars == << lockArgs, lockRet >>

appVars == << sipsTable, withdrawalsTable, formData, formErrors, summary >>

authVars == << user, subscribedUser, authSession, authEvents, getSessionPending,
               queryCache, authSteps >>

-----------------------------------------------------------------------------
(* Bounds *)

MaxTicks == 1           \* clock advances during one evaluation
HorizonTicks == 1080    \* clock advances followed by the plan list
MaxPostings == 24       \* posting dates enumerated when counting them

(* Scales of the fixed-point representation *)

MoneyScale == 10000
PowScale == 1000000
LockScale == 10
MinutesPerDay == 1440

-----------------------------------------------------------------------------
(* Calendar: JavaScript Date and date-fns *)

IsLeapYear(y) == (y % 4 = 0 /\ y % 100 # 0) \/ y % 400 = 0

getDaysInMonth(y, m) ==
    IF m = 2 THEN (IF IsLeapYear(y) THEN 29 ELSE 28)
    ELSE IF m \in {4, 6, 9, 11} THEN 30 ELSE 31

NullDate == [y |-> 0, m |-> 0, d |-> 0]

\* new Date(year, monthIndex, day) with the overflow rules of setMonth/setDate:
\* a month index outside 0..11 carries into the year, a day past the end of
\* the month carries into the next month.
MkDate(y, monthIndex, d, t) ==
    LET total == y * 12 + monthIndex
        yy == total \div 12
        mm == (total % 12) + 1
        dim == getDaysInMonth(yy, mm)
    IN  IF d <= dim
        THEN [y |-> yy, m |-> mm, d |-> d, t |-> t]
        ELSE [y |-> (total + 1) \div 12, m |-> ((total + 1) % 12) + 1,
              d |-> d - dim, t |-> t]

\* Date.prototype.getTime, up to a monotone encoding
getTime(a) == ((a.y * 12 + (a.m - 1)) * 32 + a.d) * MinutesPerDay + a.t

compareAsc(a, b) ==
    IF getTime(a) < getTime(b) THEN -1
    ELSE IF getTime(a) > getTime(b) THEN 1 ELSE 0

parseISO(s) == [y |-> s.y, m |-> s.m, d |-> s.d, t |-> 0]

NextDay(a) ==
    IF a.d < getDaysInMonth(a.y, a.m) THEN [a EXCEPT !.d = a.d + 1]
    ELSE IF a.m < 12 THEN [a EXCEPT !.m = a.m + 1, !.d = 1]
    ELSE [a EXCEPT !.y = a.y + 1, !.m = 1, !.d = 1]

PrevDay(a) ==
    IF a.d > 1 THEN [a EXCEPT !.d = a.d - 1]
    ELSE IF a.m > 1
         THEN [a EXCEPT !.m = a.m - 1, !.d = getDaysInMonth(a.y, a.m - 1)]
         ELSE [a EXCEPT !.y = a.y - 1, !.m = 12, !.d = 31]

\* date.toISOString().split('T')[0]: the UTC calendar date of a local
\* instant; for local midnight it is the previous day east of Greenwich.
toISODate(a, offset) ==
    LET utcMinutes == a.t - offset
        u == IF utcMinutes < 0 THEN PrevDay(a)
             ELSE IF utcMinutes >= MinutesPerDay THEN NextDay(a) ELSE a
    IN  [y |-> u.y, m |-> u.m, d |-> u.d]

\* new Date('YYYY-MM-DD'): a date-only string is parsed as UTC midnight
NewDate(s, offset) ==
    IF offset >= 0
    THEN [y |-> s.y, m |-> s.m, d |-> s.d, t |-> offset]
    ELSE LET p == PrevDay([y |-> s.y, m |-> s.m, d |-> s.d, t |-> 0])
         IN  [p EXCEPT !.t = MinutesPerDay + offset]

differenceInCalendarMonths(dateLeft, dateRight) ==
    (dateLeft.y - dateRight.y) * 12 + (dateLeft.m - dateRight.m)

isLastDayOfMonth(a) == a.d = getDaysInMonth(a.y, a.m)

differenceInMonths(dateLeft, dateRight) ==
    LET sign == compareAsc(dateLeft, dateRight)
        cal == differenceInCalendarMonths(dateLeft, dateRight)
        difference == IF cal < 0 THEN -cal ELSE cal
        \* if (dateLeft.getMonth() === 1 && dateLeft.getDate() > 27) setDate(30)
        feb == IF dateLeft.m = 2 /\ dateLeft.d > 27
               THEN MkDate(dateLeft.y, 1, 30, dateLeft.t)
               ELSE dateLeft
        \* dateLeft.setMonth(dateLeft.getMonth() - sign * difference)
        moved == MkDate(feb.y, (feb.m - 1) - sign * difference, feb.d, feb.t)
        isLastMonthNotFull ==
            IF isLastDayOfMonth(dateLeft) /\ difference = 1
               /\ compareAsc(dateLeft, dateRight) = 1
            THEN FALSE
            ELSE compareAsc(moved, dateRight) = -sign
    IN  IF difference < 1 THEN 0
        ELSE sign * (difference - (IF isLastMonthNotFull THEN 1 ELSE 0))

addMonths(date, amount) ==
    IF amount = 0 THEN date
    ELSE LET total == date.y * 12 + (date.m - 1) + amount
             yy == total \div 12
             mm == (total % 12) + 1
             daysInMonth == getDaysInMonth(yy, mm)
         IN  [y |-> yy, m |-> mm,
              d |-> IF date.d >= daysInMonth THEN daysInMonth ELSE date.d,
              t |-> date.t]

-----------------------------------------------------------------------------
(* Arithmetic *)

Max(a, b) == IF a >= b THEN a ELSE b

Abs(a) == IF a < 0 THEN -a ELSE a

RECURSIVE GCD(_, _)
GCD(a, b) == IF b = 0 THEN a ELSE GCD(b, a % b)

\* Math.pow(1 + annualReturn / 100 / 12, n), scaled by PowScale
RECURSIVE MathPow(_, _)
MathPow(annualReturn, n) ==
    IF n <= 0 THEN PowScale
    ELSE LET p == MathPow(annualReturn, n - 1)
         IN  p + (p * annualReturn + 600) \div 1200

\* money * pow / PowScale, split so that no product leaves 32 bits
TimesPow(money, pow) ==
    LET mh == money \div MoneyScale
        ml == money % MoneyScale
        ph == pow \div 100
        pl == pow % 100
    IN  mh * ph + (mh * pl) \div 100 + (ml * ph + 5000) \div 10000

\* Math.round(x * 100) / 100
Round2(money) == ((money + 50) \div 100) * 100

-----------------------------------------------------------------------------
(* src/src/utils/calculations.ts *)

\* calculateInstallmentsPaid without the Math.max(0, ...) clamp
calculateInstallmentsPaid_NoClamp(startDate, pauseDate, isPaused, nowRead) ==
    LET start == parseISO(startDate)
        paused == isPaused /\ pauseDate # NullDate
        end == IF paused THEN parseISO(pauseDate) ELSE nowRead
    IN  IF paused /\ compareAsc(end, start) < 0 THEN 0
        ELSE differenceInMonths(end, start) + 1

\* calculateInstallmentsPaid that never replaces now by the pause date
calculateInstallmentsPaid_IgnorePause(startDate, pauseDate, isPaused, nowRead) ==
    LET start == parseISO(startDate)
    IN  Max(0, differenceInMonths(nowRead, start) + 1)

\* calculateInstallmentsPaid without the +1 for the start month
calculateInstallmentsPaid_NoPlusOne(startDate, pauseDate, isPaused, nowRead) ==
    LET start == parseISO(startDate)
        paused == isPaused /\ pauseDate # NullDate
        end == IF paused THEN parseISO(pauseDate) ELSE nowRead
    IN  IF paused /\ compareAsc(end, start) < 0 THEN 0
        ELSE Max(0, differenceInMonths(end, start))

\* The parameter nowRead stands for the value `new Date()` returns on line 57.
calculateInstallmentsPaid(startDate, pauseDate, isPaused, nowRead) ==
    LET start == parseISO(startDate)
        paused == isPaused /\ pauseDate # NullDate
        end == IF paused THEN parseISO(pauseDate) ELSE nowRead
    IN  IF paused /\ compareAsc(end, start) < 0 THEN 0
        ELSE Max(0, differenceInMonths(end, start) + 1)

\* FutureValue whose zero-rate branch forgets the number of installments
FutureValue_ZeroRateOnce(sipAmount, annualReturn, n) ==
    IF annualReturn = 0 THEN sipAmount * MoneyScale
    ELSE LET g == GCD(1200, annualReturn)
             factor == ((MathPow(annualReturn, n) - PowScale) * (1200 \div g))
                           \div (annualReturn \div g)
         IN  Round2(TimesPow(sipAmount * MoneyScale, factor))

\* FutureValue of an annuity due: every installment earns one more month
FutureValue_AnnuityDue(sipAmount, annualReturn, n) ==
    IF annualReturn = 0 THEN sipAmount * n * MoneyScale
    ELSE LET g == GCD(1200, annualReturn)
             factor == ((MathPow(annualReturn, n + 1) - MathPow(annualReturn, 1))
                            * (1200 \div g)) \div (annualReturn \div g)
         IN  Round2(TimesPow(sipAmount * MoneyScale, factor))

\* sipAmount * ((Math.pow(1 + monthlyRate, n) - 1) / monthlyRate), lines 121-129
FutureValue(sipAmount, annualReturn, n) ==
    IF annualReturn = 0 THEN sipAmount * n * MoneyScale
    ELSE LET g == GCD(1200, annualReturn)
             factor == ((MathPow(annualReturn, n) - PowScale) * (1200 \div g))
                           \div (annualReturn \div g)
         IN  Round2(TimesPow(sipAmount * MoneyScale, factor))

\* calculateExpectedValue that credits a first installment to an empty plan
calculateExpectedValue_FirstCredited(sipAmount, annualReturn, installmentsPaidArg) ==
    IF installmentsPaidArg = 0 THEN sipAmount * MoneyScale
    ELSE FutureValue(sipAmount, annualReturn, installmentsPaidArg)

\* sipAmount in currency units, annualReturn in percent; the result is money.
calculateExpectedValue(sipAmount, annualReturn, installmentsPaidArg) ==
    IF installmentsPaidArg = 0 THEN 0
    ELSE FutureValue(sipAmount, annualReturn, installmentsPaidArg)

calculateTotalInvested(sipAmount, installmentsPaidArg) ==
    sipAmount * installmentsPaidArg * MoneyScale

\* Math.round(lockPeriodYears * 12), for a positive lock period
LockMonths(lockPeriodYears) == (lockPeriodYears * 12 + (LockScale \div 2)) \div LockScale

calculateInstallmentLockEndDate(installmentDate, lockPeriodYears, offset) ==
    IF lockPeriodYears <= 0 THEN NullDate
    ELSE toISODate(addMonths(parseISO(installmentDate), LockMonths(lockPeriodYears)),
                   offset)

\* isInstallmentLocked with today <= lockEnd
isInstallmentLocked_Inclusive(installmentDate, lockPeriodYears, todayRead, offset) ==
    IF lockPeriodYears <= 0 THEN FALSE
    ELSE LET lockEndDate ==
                 calculateInstallmentLockEndDate(installmentDate, lockPeriodYears, offset)
         IN  IF lockEndDate = NullDate THEN FALSE
             ELSE compareAsc(todayRead, parseISO(lockEndDate)) <= 0

\* The parameter todayRead stands for `new Date()` on line 224.
isInstallmentLocked(installmentDate, lockPeriodYears, todayRead, offset) ==
    IF lockPeriodYears <= 0 THEN FALSE
    ELSE LET lockEndDate ==
                 calculateInstallmentLockEndDate(installmentDate, lockPeriodYears, offset)
         IN  IF lockEndDate = NullDate THEN FALSE
             ELSE compareAsc(todayRead, parseISO(lockEndDate)) < 0

\* the guard of line 284 with lockPeriodYears < 0
NothingLocked_Strict(totalInstallmentsArg, lockPeriodYears) ==
    totalInstallmentsArg = 0 \/ lockPeriodYears < 0

\* calculateAvailableWithdrawal, line 284
NothingLocked(totalInstallmentsArg, lockPeriodYears) ==
    totalInstallmentsArg = 0 \/ lockPeriodYears <= 0

\* calculateAvailableWithdrawal, lines 306-309
InstallmentExpectedValue(amount, annualReturn, monthsHeld) ==
    IF monthsHeld > 0
    THEN TimesPow(calculateExpectedValue(amount, annualReturn, 1),
                  MathPow(annualReturn, monthsHeld - 1))
    ELSE amount * MoneyScale

-----------------------------------------------------------------------------
(* Inputs *)

D(y, m, d) == [y |-> y, m |-> m, d |-> d]

StartDates == { D(2023, 1, 1), D(2024, 1, 31), D(2024, 7, 15) }
PauseDates == { D(2023, 12, 1), D(2024, 4, 30) }
Amounts == { 100, 5000 }
Rates == { 0, 12, 15 }
LockPeriods == { -10, 0, 5, 10 }
TZOffsets == { -300, 0, 330 }
ClockInits == { [y |-> 2024, m |-> 6, d |-> 30, t |-> 1],
                [y |-> 2024, m |-> 7, d |-> 1, t |-> 0] }

Sips ==
    { s \in [ start_date : StartDates, amount : Amounts, annual_return : Rates,
              lock_period_years : LockPeriods,
              pause_date : PauseDates \cup {NullDate}, is_paused : BOOLEAN ] :
        s.is_paused <=> (s.pause_date # NullDate) }

NoResult == [ availableAmount |-> 0, lockedAmount |-> 0, totalValue |-> 0,
              installments |-> << >> ]

NoLockArgs == [ installmentDate |-> NullDate, lockPeriodYears |-> 0 ]
NoLockRet == [ lockEndDate |-> NullDate, isLocked |-> FALSE, today |-> NullDate ]

\* nothing has called the lock functions directly
LockIdle ==
    /\ lockArgs = NoLockArgs
    /\ lockRet = NoLockRet

NoForm == [ form |-> "none" ]
NoSummary == [ total_invested |-> 0, total_withdrawals |-> 0, net_portfolio |-> 0,
               expected_value |-> 0, total_gain_loss |-> 0 ]

\* nothing is stored and no form is open
AppIdle ==
    /\ sipsTable = {}
    /\ withdrawalsTable = {}
    /\ formData = NoForm
    /\ formErrors = {}
    /\ summary = NoSummary

NoUser == "none"

\* nobody is signed in, nothing is cached and no evaluation has been shown
AuthIdle ==
    /\ user = NoUser
    /\ subscribedUser = NoUser
    /\ authSession = NoUser
    /\ authEvents = << >>
    /\ getSessionPending = FALSE
    /\ queryCache = NoUser
    /\ authSteps = 0
    /\ shown = NoResult

\* no plan is being evaluated
EvalIdle ==
    /\ now = clock
    /\ totalInstallments = 0
    /\ totalValue = 0
    /\ endDate = clock
    /\ i = 0
    /\ availableAmount = 0
    /\ lockedAmount = 0
    /\ installments = << >>
    /\ today = << >>
    /\ result = NoResult
    /\ installmentsPaid = 0
    /\ totalInvested = 0
    /\ expectedValue = 0

Init ==
    /\ sip \in Sips
    /\ clock \in ClockInits
    /\ tz \in TZOffsets
    /\ ticks = 0
    /\ pc = "idle"
    /\ now = clock
    /\ totalInstallments = 0
    /\ totalValue = 0
    /\ endDate = clock
    /\ i = 0
    /\ availableAmount = 0
    /\ lockedAmount = 0
    /\ installments = << >>
    /\ today = << >>
    /\ result = NoResult
    /\ installmentsPaid = 0
    /\ totalInvested = 0
    /\ expectedValue = 0
    /\ LockIdle
    /\ AppIdle
    /\ AuthIdle

-----------------------------------------------------------------------------
(* The wall clock *)

\* Time passes: later the same day, or into the next day.
LaterInstants(c) ==
    (IF c.t = 0 THEN { [c EXCEPT !.t = 1] } ELSE {})
        \cup { [NextDay(c) EXCEPT !.t = 0], [NextDay(c) EXCEPT !.t = 1] }

Tick ==
    /\ pc \in {"idle", "L293", "loop"}
    /\ ticks < MaxTicks
    /\ clock' \in LaterInstants(clock)
    /\ ticks' = ticks + 1
    /\ UNCHANGED << lockVars, appVars, authVars, shown >>
    /\ UNCHANGED << sip, tz, pc, now, totalInstallments, totalValue, endDate, i,
                    availableAmount, lockedAmount, installments, today, result,
                    installmentsPaid, totalInvested, expectedValue >>

-----------------------------------------------------------------------------
(* calculateAvailableWithdrawal, one action per read of the clock *)

\* lines 280-291
Call ==
    /\ pc = "idle"
    /\ LET n == calculateInstallmentsPaid(sip.start_date, sip.pause_date,
                                          sip.is_paused, clock)
           v == calculateExpectedValue(sip.amount, sip.annual_return, n)
       IN  /\ now' = clock
           /\ totalInstallments' = n
           /\ totalValue' = v
           /\ IF NothingLocked(n, sip.lock_period_years)
              THEN /\ result' = [ availableAmount |-> v, lockedAmount |-> 0,
                                  totalValue |-> v, installments |-> << >> ]
                   /\ pc' = "done"
              ELSE /\ result' = result
                   /\ pc' = "L293"
    /\ UNCHANGED << lockVars, appVars, authVars, shown >>
    /\ UNCHANGED << sip, clock, tz, ticks, endDate, i, availableAmount,
                    lockedAmount, installments, today, installmentsPaid,
                    totalInvested, expectedValue >>

\* lines 293-298
ReadEndDate ==
    /\ pc = "L293"
    /\ endDate' = IF sip.is_paused /\ sip.pause_date # NullDate
                  THEN parseISO(sip.pause_date) ELSE clock
    /\ availableAmount' = 0
    /\ lockedAmount' = 0
    /\ installments' = << >>
    /\ i' = 0
    /\ pc' = "loop"
    /\ UNCHANGED << lockVars, appVars, authVars, shown >>
    /\ UNCHANGED << sip, clock, tz, ticks, now, totalInstallments, totalValue,
                    today, result, installmentsPaid, totalInvested, expectedValue >>

\* lines 301-327, one iteration
LoopStep ==
    /\ pc = "loop"
    /\ i < totalInstallments
    /\ LET installmentDate == addMonths(parseISO(sip.start_date), i)
           installmentDateStr == toISODate(installmentDate, tz)
           monthsHeld == differenceInMonths(endDate, installmentDate)
           installmentExpectedValue ==
               InstallmentExpectedValue(sip.amount, sip.annual_return, monthsHeld)
           isLocked == isInstallmentLocked(installmentDateStr,
                                           sip.lock_period_years, clock, tz)
           lockEndDate == calculateInstallmentLockEndDate(installmentDateStr,
                                                          sip.lock_period_years, tz)
       IN  /\ installments' = Append(installments,
                  [ date |-> installmentDateStr, amount |-> sip.amount,
                    expectedValue |-> installmentExpectedValue,
                    isLocked |-> isLocked, lockEndDate |-> lockEndDate ])
           /\ today' = Append(today, clock)
           /\ lockedAmount' = IF isLocked
                              THEN lockedAmount + installmentExpectedValue
                              ELSE lockedAmount
           /\ availableAmount' = IF isLocked
                                 THEN availableAmount
                                 ELSE availableAmount + installmentExpectedValue
    /\ i' = i + 1
    /\ UNCHANGED << lockVars, appVars, authVars, shown >>
    /\ UNCHANGED << sip, clock, tz, ticks, pc, now, totalInstallments, totalValue,
                    endDate, result, installmentsPaid, totalInvested, expectedValue >>

\* lines 329-334
Return ==
    /\ pc = "loop"
    /\ i >= totalInstallments
    /\ result' = [ availableAmount |-> Max(0, availableAmount),
                   lockedAmount |-> Max(0, lockedAmount),
                   totalValue |-> totalValue,
                   installments |-> installments ]
    /\ pc' = "done"
    /\ UNCHANGED << lockVars, appVars, authVars, shown >>
    /\ UNCHANGED << sip, clock, tz, ticks, now, totalInstallments, totalValue,
                    endDate, i, availableAmount, lockedAmount, installments, today,
                    installmentsPaid, totalInvested, expectedValue >>

Next == Tick \/ Call \/ ReadEndDate \/ LoopStep \/ Return

Spec == Init /\ [][Next]_vars

-----------------------------------------------------------------------------
(* SIPRow (src/src/components/SIPList.tsx, lines 493-495): the plan list    *)
(* renders a plan's figures again whenever time has passed.                 *)

ListStartDates ==
    { D(2023, 1, 29), D(2023, 1, 30), D(2023, 1, 31), D(2023, 2, 28),
      D(2023, 3, 31), D(2023, 6, 15), D(2023, 11, 30), D(2023, 12, 31),
      D(2024, 1, 1), D(2024, 1, 29), D(2024, 1, 31), D(2024, 2, 29) }
ListPauseDates ==
    { D(2023, 2, 28), D(2023, 4, 30), D(2023, 12, 1), D(2024, 2, 28),
      D(2024, 2, 29), D(2024, 4, 1) }
ListClockInit == [y |-> 2023, m |-> 1, d |-> 10, t |-> 0]

ListSips ==
    { s \in [ start_date : ListStartDates, amount : {5000}, annual_return : {12},
              lock_period_years : {10},
              pause_date : ListPauseDates \cup {NullDate}, is_paused : BOOLEAN ] :
        s.is_paused <=> (s.pause_date # NullDate) }

InitList ==
    /\ sip \in ListSips
    /\ clock = ListClockInit
    /\ tz = 0
    /\ ticks = 0
    /\ pc = "stale"
    /\ now = clock
    /\ totalInstallments = 0
    /\ totalValue = 0
    /\ endDate = clock
    /\ i = 0
    /\ availableAmount = 0
    /\ lockedAmount = 0
    /\ installments = << >>
    /\ today = << >>
    /\ result = NoResult
    /\ installmentsPaid = 0
    /\ totalInvested = 0
    /\ expectedValue = 0
    /\ LockIdle
    /\ AppIdle
    /\ AuthIdle

\* SIPRow, lines 493-495
Render ==
    /\ pc = "stale"
    /\ LET n == calculateInstallmentsPaid(sip.start_date, sip.pause_date,
                                          sip.is_paused, clock)
       IN  /\ installmentsPaid' = n
           /\ totalInvested' = calculateTotalInvested(sip.amount, n)
           /\ expectedValue' = calculateExpectedValue(sip.amount, sip.annual_return, n)
    /\ now' = clock
    /\ pc' = "rendered"
    /\ UNCHANGED << lockVars, appVars, authVars, shown >>
    /\ UNCHANGED << sip, clock, tz, ticks, totalInstallments, totalValue, endDate,
                    i, availableAmount, lockedAmount, installments, today, result >>

\* Time passes between two renders: midnight, then the rest of the day.
Advance ==
    /\ pc = "rendered"
    /\ ticks < HorizonTicks
    /\ clock' = IF clock.t = 0 THEN [clock EXCEPT !.t = 1]
                ELSE [NextDay(clock) EXCEPT !.t = 0]
    /\ ticks' = ticks + 1
    /\ pc' = "stale"
    /\ UNCHANGED << lockVars, appVars, authVars, shown >>
    /\ UNCHANGED << sip, tz, now, totalInstallments, totalValue, endDate, i,
                    availableAmount, lockedAmount, installments, today, result,
                    installmentsPaid, totalInvested, expectedValue >>

NextList == Render \/ Advance

SpecList == InitList /\ [][NextList]_vars

-----------------------------------------------------------------------------
(* calculateInstallmentLockEndDate and isInstallmentLocked called directly,  *)
(* as calculateAvailableWithdrawal does on lines 311-312, while time passes. *)

MaxLockTicks == 44      \* clock advances followed by the direct calls

LockDates == { D(2024, 1, 1), D(2024, 6, 15), D(2025, 6, 30) }
LockYears == { -10, 0, 5, 10, 15, 20 }
LockClockInit == [y |-> 2025, m |-> 12, d |-> 13, t |-> 0]

InitLock ==
    /\ lockArgs \in [ installmentDate : LockDates, lockPeriodYears : LockYears ]
    /\ lockRet = NoLockRet
    /\ sip \in { s \in Sips : s.start_date = D(2023, 1, 1) /\ s.amount = 100
                                /\ s.annual_return = 0 /\ s.lock_period_years = 0
                                /\ ~s.is_paused }
    /\ clock = LockClockInit
    /\ tz \in TZOffsets
    /\ ticks = 0
    /\ pc = "lock_stale"
    /\ EvalIdle
    /\ AppIdle
    /\ AuthIdle

\* lines 311-312 for one installment date
ApplyLock ==
    /\ pc = "lock_stale"
    /\ lockRet' =
           [ lockEndDate |->
                 calculateInstallmentLockEndDate(lockArgs.installmentDate,
                                                 lockArgs.lockPeriodYears, tz),
             isLocked |->
                 isInstallmentLocked(lockArgs.installmentDate,
                                     lockArgs.lockPeriodYears, clock, tz),
             today |-> clock ]
    /\ pc' = "lock_done"
    /\ UNCHANGED << clock, tz, ticks, lockArgs, evalVars, appVars, authVars, shown >>

\* Time passes between two calls: midnight, then noon.
LockAdvance ==
    /\ pc = "lock_done"
    /\ ticks < MaxLockTicks
    /\ clock' = IF clock.t = 0 THEN [clock EXCEPT !.t = MinutesPerDay \div 2]
                ELSE [NextDay(clock) EXCEPT !.t = 0]
    /\ ticks' = ticks + 1
    /\ pc' = "lock_stale"
    /\ UNCHANGED << tz, lockArgs, lockRet, evalVars, appVars, authVars, shown >>

NextLock == ApplyLock \/ LockAdvance

SpecLock == InitLock /\ [][NextLock]_vars

-----------------------------------------------------------------------------
(* SIPDetail (src/src/pages/Dashboard.tsx, lines 239-250): the detail page  *)
(* of a paused plan evaluates the plan again whenever it renders.           *)

RowPauseDates == { D(2024, 2, 29), D(2024, 4, 30) }
RowSips ==
    [ start_date : { D(2024, 1, 31) }, amount : { 100 }, annual_return : { 0, 12 },
      lock_period_years : { 0, 5, 10 }, pause_date : RowPauseDates,
      is_paused : { TRUE } ]
RowClockInit == [y |-> 2024, m |-> 7, d |-> 1, t |-> 0]

\* the midnights the page is opened at: around the days the locks end
RowInstants ==
    { [y |-> 2024, m |-> 7, d |-> 30, t |-> 0], [y |-> 2024, m |-> 7, d |-> 31, t |-> 0],
      [y |-> 2024, m |-> 8, d |-> 29, t |-> 0], [y |-> 2024, m |-> 9, d |-> 29, t |-> 0],
      [y |-> 2024, m |-> 9, d |-> 30, t |-> 0], [y |-> 2025, m |-> 2, d |-> 28, t |-> 0],
      [y |-> 2025, m |-> 3, d |-> 31, t |-> 0], [y |-> 2025, m |-> 5, d |-> 1, t |-> 0] }

InitRow ==
    /\ sip \in RowSips
    /\ clock = RowClockInit
    /\ tz \in TZOffsets
    /\ ticks = 0
    /\ pc = "idle"
    /\ EvalIdle
    /\ LockIdle
    /\ AppIdle
    /\ AuthIdle

\* time passes between two renders
RowAdvance ==
    /\ pc = "idle"
    /\ clock' \in { c \in RowInstants : getTime(c) > getTime(clock) }
    /\ UNCHANGED << tz, ticks, pc, evalVars, lockVars, appVars, authVars, shown >>

\* the page renders again: the last evaluation's locals are gone and what it
\* returned is what the page showed
Reevaluate ==
    /\ pc = "done"
    /\ shown' = result
    /\ i' = 0
    /\ availableAmount' = 0
    /\ lockedAmount' = 0
    /\ installments' = << >>
    /\ today' = << >>
    /\ pc' = "idle"
    /\ UNCHANGED << sip, clock, tz, ticks, now, totalInstallments, totalValue,
                    endDate, result, installmentsPaid, totalInvested, expectedValue >>
    /\ UNCHANGED << lockVars, appVars, authVars >>

NextRow ==
    \/ Tick
    \/ RowAdvance
    \/ Call
    \/ ReadEndDate
    \/ LoopStep
    \/ Return
    \/ Reevaluate

SpecRow == InitRow /\ [][NextRow]_vars

-----------------------------------------------------------------------------
(* AuthProvider (src/unnamed/part_009): the signed-in user, the auth        *)
(* callback subscribed by the effect of lines 36-76 and the query cache.    *)
(* The queries are keyed ['sips'] and ['withdrawals'] for every user, so    *)
(* the cache holds the rows of one user at a time.                          *)

MaxAuthSteps == 3       \* sign-ins, sign-outs and token refreshes

Users == { "A", "B" }

\* lines 56-73: does the callback call queryClient.clear()?
ClearsCache(event, previousUserId, newUserId) ==
    \/ event = "SIGNED_OUT"
    \/ previousUserId # NoUser /\ newUserId # NoUser /\ previousUserId # newUserId
    \/ event = "SIGNED_IN" /\ previousUserId # NoUser /\ previousUserId # newUserId

\* the provider mounts: the effect has subscribed its callback and called
\* getInitialSession; the browser may hold a session from an earlier visit
InitAuth ==
    /\ sip \in { s \in Sips : s.start_date = D(2023, 1, 1) /\ s.amount = 100
                                /\ s.annual_return = 0 /\ s.lock_period_years = 0
                                /\ ~s.is_paused }
    /\ clock = RowClockInit
    /\ tz = 0
    /\ ticks = 0
    /\ pc = "auth"
    /\ EvalIdle
    /\ LockIdle
    /\ AppIdle
    /\ shown = NoResult
    /\ user = NoUser
    /\ subscribedUser = NoUser
    /\ authSession \in Users \cup {NoUser}
    /\ authEvents = << >>
    /\ getSessionPending = TRUE
    /\ queryCache = NoUser
    /\ authSteps = 0

AuthFrame ==
    UNCHANGED << sip, clock, tz, ticks, pc, evalVars, lockVars, appVars, shown >>

\* a sign-in completes, in this tab (lines 86-102) or in another tab of the
\* browser: the client holds the new session and notifies its subscribers
SignIn ==
    \E u \in Users :
        /\ authSteps < MaxAuthSteps
        /\ authSession' = u
        /\ authEvents' = Append(authEvents, [ event |-> "SIGNED_IN", session |-> u ])
        /\ authSteps' = authSteps + 1
        /\ UNCHANGED << user, subscribedUser, getSessionPending, queryCache >>
        /\ AuthFrame

\* AuthProvider.signOut, lines 104-108
SignOut ==
    /\ authSteps < MaxAuthSteps
    /\ authSession # NoUser
    /\ queryCache' = NoUser
    /\ authSession' = NoUser
    /\ authEvents' = Append(authEvents, [ event |-> "SIGNED_OUT", session |-> NoUser ])
    /\ authSteps' = authSteps + 1
    /\ UNCHANGED << user, subscribedUser, getSessionPending >>
    /\ AuthFrame

\* the session ends without the provider's signOut: signed out in another
\* tab, or the refresh token is refused
SessionEnds ==
    /\ authSteps < MaxAuthSteps
    /\ authSession # NoUser
    /\ authSession' = NoUser
    /\ authEvents' = Append(authEvents, [ event |-> "SIGNED_OUT", session |-> NoUser ])
    /\ authSteps' = authSteps + 1
    /\ UNCHANGED << user, subscribedUser, getSessionPending, queryCache >>
    /\ AuthFrame

\* the client refreshes the access token of the session it holds
TokenRefreshed ==
    /\ authSteps < MaxAuthSteps
    /\ authSession # NoUser
    /\ authEvents' = Append(authEvents,
                            [ event |-> "TOKEN_REFRESHED", session |-> authSession ])
    /\ authSteps' = authSteps + 1
    /\ UNCHANGED << user, subscribedUser, authSession, getSessionPending, queryCache >>
    /\ AuthFrame

\* lines 48-74: the subscribed callback receives the next notification; its
\* user is the one of the render that subscribed it
HandleAuthEvent ==
    /\ authEvents # << >>
    /\ LET ev == Head(authEvents)
           previousUserId == subscribedUser
           newUserId == ev.session
       IN  /\ user' = newUserId
           /\ queryCache' = IF ClearsCache(ev.event, previousUserId, newUserId)
                            THEN NoUser ELSE queryCache
    /\ authEvents' = Tail(authEvents)
    /\ UNCHANGED << subscribedUser, authSession, getSessionPending, authSteps >>
    /\ AuthFrame

\* lines 38-46: getSession() resolves with the session the client holds
GetInitialSession ==
    /\ getSessionPending
    /\ user' = authSession
    /\ getSessionPending' = FALSE
    /\ UNCHANGED << subscribedUser, authSession, authEvents, queryCache, authSteps >>
    /\ AuthFrame

\* line 76: React has rendered with another user id and runs the effect
\* again: the old callback is unsubscribed, a callback closing over the new
\* user is subscribed and getInitialSession is called
RunEffect ==
    /\ subscribedUser # user
    /\ subscribedUser' = user
    /\ getSessionPending' = TRUE
    /\ UNCHANGED << user, authSession, authEvents, queryCache, authSteps >>
    /\ AuthFrame

\* useSIPs / useWithdrawals: a query of the signed-in user's pages resolves
\* with the rows of the session the client holds (row level security)
QueryResolves ==
    /\ user # NoUser
    /\ subscribedUser = user
    /\ authSession # NoUser
    /\ queryCache' = authSession
    /\ UNCHANGED << user, subscribedUser, authSession, authEvents,
                    getSessionPending, authSteps >>
    /\ AuthFrame

NextAuth ==
    \/ SignIn
    \/ SignOut
    \/ SessionEnds
    \/ TokenRefreshed
    \/ HandleAuthEvent
    \/ GetInitialSession
    \/ RunEffect
    \/ QueryResolves

SpecAuth == InitAuth /\ [][NextAuth]_vars

-----------------------------------------------------------------------------
(* The application: the stored tables, the forms that write them and the     *)
(* portfolio summary that reads them.                                       *)

SipIds == { 1, 2 }
WithdrawalIds == { 1, 2 }
NoSip == 0              \* sip_id NULL, '' in the forms
Statuses == { "active", "inactive", "completed" }

FormStartDates == { D(2024, 1, 15), D(2024, 5, 15), D(2024, 7, 2) }
StoredPlans ==
    { [ id |-> 1, name |-> "SIP", start_date |-> D(2024, 1, 15), amount |-> 1000,
        annual_return |-> 12, lock_period_years |-> 0, pause_date |-> NullDate,
        is_paused |-> FALSE, status |-> "active" ],
      [ id |-> 2, name |-> "SIP", start_date |-> D(2024, 1, 15), amount |-> 1000,
        annual_return |-> 12, lock_period_years |-> 0,
        pause_date |-> D(2024, 3, 15), is_paused |-> TRUE,
        status |-> "inactive" ] }
\* a number input left empty ('')
EmptyField == -1000000
FormNames == { "SIP" }
FormAmounts == { 1000 }
FormRates == { 12 }
FormLocks == { EmptyField }

\* what the add-plan form can be submitted with: names blank or not, start
\* dates missing, past, today and tomorrow, amounts around the minimum of 100,
\* rates around [0, 100], lock periods (in tenths of a year) around [0, 10]
AddFormNames == { "", " ", "SIP" }
AddFormStartDates == { NullDate, D(2024, 1, 15), D(2024, 7, 1), D(2024, 7, 2) }
AddFormAmounts == { EmptyField, 0, 50, 100 }
AddFormRates == { EmptyField, -1, 100, 101 }
AddFormLocks == { EmptyField, -5, 10 * LockScale, 10 * LockScale + 5 }
FormPauseDates == { NullDate, D(2024, 1, 1), D(2024, 3, 15), D(2024, 7, 2) }
WithdrawalAmounts == { MoneyScale \div 2, 100 * MoneyScale, 9000 * MoneyScale }
WithdrawalDates == { D(2024, 7, 1), D(2024, 7, 2) }

\* the hosts: at UTC at noon, at UTC+5:30 at 02:00, at UTC-5 at 20:00
AppToday == D(2024, 7, 1)
AppHosts == { [ tz |-> 0, t |-> 720 ], [ tz |-> 330, t |-> 120 ],
              [ tz |-> -300, t |-> 1200 ] }

\* supabase .update(updates).eq('id', id): the columns named in updates change
ApplyUpdates(row, updates) ==
    [ f \in DOMAIN row |-> IF f \in DOMAIN updates THEN updates[f] ELSE row[f] ]

UpdateRow(table, id, updates) ==
    { IF r.id = id THEN ApplyUpdates(r, updates) ELSE r : r \in table }

\* gen_random_uuid(): an id no stored row has
FreeIds(table, ids) == ids \ { r.id : r \in table }

\* `new Date(dateString) > new Date()` of the forms' date checks
IsAfterNow(dateString, nowRead, offset) ==
    getTime(NewDate(dateString, offset)) > getTime(nowRead)

\* PortfolioSummary.tsx, lines 18-24: the forEach over the plans
RECURSIVE SumTotalInvested(_, _)
SumTotalInvested(sips, nowRead) ==
    IF sips = {} THEN 0
    ELSE LET s == CHOOSE x \in sips : TRUE
             n == calculateInstallmentsPaid(s.start_date, NullDate, FALSE, nowRead)
         IN  calculateTotalInvested(s.amount, n)
                 + SumTotalInvested(sips \ {s}, nowRead)

RECURSIVE SumExpectedValue(_, _)
SumExpectedValue(sips, nowRead) ==
    IF sips = {} THEN 0
    ELSE LET s == CHOOSE x \in sips : TRUE
             n == calculateInstallmentsPaid(s.start_date, NullDate, FALSE, nowRead)
         IN  calculateExpectedValue(s.amount, s.annual_return, n)
                 + SumExpectedValue(sips \ {s}, nowRead)

\* line 27: withdrawals?.reduce((sum, w) => sum + w.amount, 0) || 0
RECURSIVE SumWithdrawals(_)
SumWithdrawals(withdrawals) ==
    IF withdrawals = {} THEN 0
    ELSE LET w == CHOOSE x \in withdrawals : TRUE
         IN  w.amount + SumWithdrawals(withdrawals \ {w})

\* calculatePortfolioSummary that only counts withdrawals linked to an active plan
calculatePortfolioSummary_ActiveLinked(sips, withdrawals, nowRead) ==
    LET ti == SumTotalInvested(sips, nowRead)
        ev == SumExpectedValue(sips, nowRead)
        tw == SumWithdrawals({ w \in withdrawals :
                  \E s \in sips : s.id = w.sip_id /\ s.status = "active" })
    IN  [ total_invested |-> ti, total_withdrawals |-> tw,
          net_portfolio |-> ti - tw, expected_value |-> ev,
          total_gain_loss |-> ev - ti ]

\* PortfolioSummary.tsx, lines 13-40
calculatePortfolioSummary(sips, withdrawals, nowRead) ==
    LET ti == SumTotalInvested(sips, nowRead)
        ev == SumExpectedValue(sips, nowRead)
        tw == SumWithdrawals(withdrawals)
    IN  [ total_invested |-> ti, total_withdrawals |-> tw,
          net_portfolio |-> ti - tw, expected_value |-> ev,
          total_gain_loss |-> ev - ti ]

\* String.prototype.trim on the names the forms are submitted with
Trim(name) == IF name = " " THEN "" ELSE name

\* AddSIPForm.validateForm, lines 31-77: the fields in error
AddSIPFormErrors(data, nowRead, offset) ==
    (IF Trim(data.name) = "" THEN {"name"} ELSE {})
    \cup (IF data.start_date = NullDate
              \/ IsAfterNow(data.start_date, nowRead, offset)
          THEN {"start_date"} ELSE {})
    \cup (IF data.amount = EmptyField \/ data.amount <= 0 \/ data.amount < 100
          THEN {"amount"} ELSE {})
    \cup (IF data.annual_return = EmptyField \/ data.annual_return < 0
              \/ data.annual_return > 100
          THEN {"annual_return"} ELSE {})
    \cup (IF data.lock_period_years # EmptyField
              /\ (data.lock_period_years < 0
                    \/ data.lock_period_years > 10 * LockScale)
          THEN {"lock_period_years"} ELSE {})

\* EditSIPForm.validateForm: the fields in error
SIPFormErrors(data, nowRead, offset) ==
    (IF data.start_date = NullDate \/ IsAfterNow(data.start_date, nowRead, offset)
     THEN {"start_date"} ELSE {})
    \cup (IF data.amount <= 0 \/ data.amount < 100 THEN {"amount"} ELSE {})
    \cup (IF data.annual_return < 0 \/ data.annual_return > 100
          THEN {"annual_return"} ELSE {})

\* AddWithdrawalForm.validateForm and EditWithdrawalForm.validateForm
WithdrawalFormErrors(data, nowRead, offset) ==
    (IF data.amount <= 0 \/ data.amount < MoneyScale THEN {"amount"} ELSE {})
    \cup (IF data.date = NullDate \/ IsAfterNow(data.date, nowRead, offset)
          THEN {"date"} ELSE {})

\* usePauseSIP that stores the date without the flag
PauseUpdates_DateOnly(pauseDate) ==
    [ is_paused |-> FALSE, pause_date |-> pauseDate ]

\* usePauseSIP, lines 104-108
PauseUpdates(pauseDate) ==
    [ is_paused |-> TRUE, pause_date |-> pauseDate ]

\* useResumeSIP, lines 119-123
ResumeUpdates == [ is_paused |-> FALSE, pause_date |-> NullDate ]

InitApp ==
    /\ sip \in { s \in Sips : s.start_date = D(2023, 1, 1) /\ s.amount = 100
                                /\ s.annual_return = 0 /\ s.lock_period_years = 0
                                /\ ~s.is_paused }
    /\ \E h \in AppHosts :
           /\ tz = h.tz
           /\ clock = [ y |-> AppToday.y, m |-> AppToday.m, d |-> AppToday.d,
                        t |-> h.t ]
    /\ ticks = 0
    /\ pc = "app"
    /\ EvalIdle
    /\ LockIdle
    /\ AppIdle
    /\ AuthIdle

\* the withdrawals page of an account that already holds plans
InitWithdrawals ==
    /\ sip \in { s \in Sips : s.start_date = D(2023, 1, 1) /\ s.amount = 100
                                /\ s.annual_return = 0 /\ s.lock_period_years = 0
                                /\ ~s.is_paused }
    /\ \E h \in AppHosts :
           /\ tz = h.tz
           /\ clock = [ y |-> AppToday.y, m |-> AppToday.m, d |-> AppToday.d,
                        t |-> h.t ]
    /\ ticks = 0
    /\ pc = "app"
    /\ EvalIdle
    /\ LockIdle
    /\ sipsTable \in { {}, StoredPlans }
    /\ withdrawalsTable = {}
    /\ formData = NoForm
    /\ formErrors = {}
    /\ summary = calculatePortfolioSummary(sipsTable, withdrawalsTable, clock)
    /\ AuthIdle

\* what every handler of the application leaves alone
AppFrame ==
    UNCHANGED << clock, tz, ticks, pc, evalVars, lockVars, authVars, shown >>

\* the components re-render with the refetched tables
Rerender ==
    summary' = calculatePortfolioSummary(sipsTable', withdrawalsTable', clock)

\* AddSIPForm.handleSubmit, lines 79-99, submitted with any of the given values
SubmitAddSIPWith(names, starts, amounts, rates, locks) ==
    \E name \in names, start \in starts, amount \in amounts, rate \in rates,
       lock \in locks :
        LET data == [ form |-> "AddSIPForm", name |-> name, start_date |-> start,
                      amount |-> amount, annual_return |-> rate,
                      lock_period_years |-> lock ]
            errs == AddSIPFormErrors(data, clock, tz)
        IN  /\ FreeIds(sipsTable, SipIds) # {}
            /\ IF errs = {}
               THEN /\ \E id \in FreeIds(sipsTable, SipIds) :
                           sipsTable' = sipsTable \cup
                               { [ id |-> id, name |-> Trim(name),
                                   start_date |-> start, amount |-> amount,
                                   annual_return |-> rate,
                                   lock_period_years |->
                                       IF lock # EmptyField THEN lock ELSE 0,
                                   pause_date |-> NullDate,
                                   is_paused |-> FALSE, status |-> "active" ] }
                    /\ formData' = NoForm
                    /\ formErrors' = {}
               ELSE /\ sipsTable' = sipsTable
                    /\ formData' = data
                    /\ formErrors' = errs
            /\ withdrawalsTable' = withdrawalsTable
            /\ Rerender
            /\ AppFrame

\* the form filled in with a name and an empty lock field
SubmitAddSIP ==
    SubmitAddSIPWith(FormNames, FormStartDates, FormAmounts, FormRates, FormLocks)

\* the form of an account without plans, filled in with anything
SubmitFirstSIP ==
    /\ sipsTable = {}
    /\ SubmitAddSIPWith(AddFormNames, AddFormStartDates, AddFormAmounts,
                        AddFormRates, AddFormLocks)

\* EditSIPForm.handleSubmit, lines 325-347
SubmitEditSIP ==
    \E row \in sipsTable, start \in FormStartDates, amount \in FormAmounts,
       rate \in FormRates, status \in Statuses :
        LET data == [ form |-> "EditSIPForm", id |-> row.id, start_date |-> start,
                      amount |-> amount, annual_return |-> rate, status |-> status ]
            errs == SIPFormErrors(data, clock, tz)
        IN  /\ IF errs = {}
               THEN /\ sipsTable' = UpdateRow(sipsTable, row.id,
                           [ start_date |-> start, amount |-> amount,
                             annual_return |-> rate, status |-> status ])
                    /\ formData' = NoForm
                    /\ formErrors' = {}
               ELSE /\ sipsTable' = sipsTable
                    /\ formData' = data
                    /\ formErrors' = errs
            /\ withdrawalsTable' = withdrawalsTable
            /\ Rerender
            /\ AppFrame

\* PauseSIPForm.handleSubmit (src/src/hooks/useSIPs.ts, lines 376-409), opened
\* from the Pause entry of a plan that is not paused.  An empty date passes
\* both comparisons (Invalid Date) and is refused by the DATE column.
SubmitPause ==
    \E row \in sipsTable, pauseDate \in FormPauseDates :
        LET data == [ form |-> "PauseSIPForm", id |-> row.id,
                      pauseDate |-> pauseDate ]
            rejected ==
                \/ pauseDate = NullDate
                \/ getTime(NewDate(pauseDate, tz)) < getTime(NewDate(row.start_date, tz))
                \/ IsAfterNow(pauseDate, clock, tz)
        IN  /\ ~row.is_paused
            /\ IF rejected
               THEN /\ sipsTable' = sipsTable
                    /\ formData' = data
                    /\ formErrors' = {"error"}
               ELSE /\ sipsTable' = UpdateRow(sipsTable, row.id, PauseUpdates(pauseDate))
                    /\ formData' = NoForm
                    /\ formErrors' = {}
            /\ withdrawalsTable' = withdrawalsTable
            /\ Rerender
            /\ AppFrame

\* SIPList.handleResume, lines 829-837, confirmed by the user
Resume ==
    \E row \in sipsTable :
        /\ row.is_paused
        /\ sipsTable' = UpdateRow(sipsTable, row.id, ResumeUpdates)
        /\ UNCHANGED << withdrawalsTable, formData, formErrors >>
        /\ Rerender
        /\ AppFrame

\* AddWithdrawalForm.handleSubmit, lines 59-75
SubmitAddWithdrawal ==
    \E amount \in WithdrawalAmounts, date \in WithdrawalDates,
       link \in {NoSip} \cup { r.id : r \in sipsTable } :
        LET data == [ form |-> "AddWithdrawalForm", amount |-> amount,
                      date |-> date, sip_id |-> link ]
            errs == WithdrawalFormErrors(data, clock, tz)
        IN  /\ FreeIds(withdrawalsTable, WithdrawalIds) # {}
            /\ IF errs = {}
               THEN /\ \E id \in FreeIds(withdrawalsTable, WithdrawalIds) :
                           withdrawalsTable' = withdrawalsTable \cup
                               { [ id |-> id, amount |-> amount, date |-> date,
                                   sip_id |-> link ] }
                    /\ formData' = NoForm
                    /\ formErrors' = {}
               ELSE /\ withdrawalsTable' = withdrawalsTable
                    /\ formData' = data
                    /\ formErrors' = errs
            /\ sipsTable' = sipsTable
            /\ Rerender
            /\ AppFrame

\* EditWithdrawalForm.handleSubmit, lines 69-88; an empty plan selection is
\* sent as undefined, which leaves the stored link as it is
SubmitEditWithdrawal ==
    \E row \in withdrawalsTable, amount \in WithdrawalAmounts,
       date \in WithdrawalDates, link \in {NoSip} \cup { r.id : r \in sipsTable } :
        LET data == [ form |-> "EditWithdrawalForm", id |-> row.id,
                      amount |-> amount, date |-> date, sip_id |-> link ]
            errs == WithdrawalFormErrors(data, clock, tz)
        IN  /\ IF errs = {}
               THEN /\ withdrawalsTable' = UpdateRow(withdrawalsTable, row.id,
                           IF link = NoSip
                           THEN [ amount |-> amount, date |-> date ]
                           ELSE [ amount |-> amount, date |-> date, sip_id |-> link ])
                    /\ formData' = NoForm
                    /\ formErrors' = {}
               ELSE /\ withdrawalsTable' = withdrawalsTable
                    /\ formData' = data
                    /\ formErrors' = errs
            /\ sipsTable' = sipsTable
            /\ Rerender
            /\ AppFrame

\* a foreign key declared ON DELETE CASCADE
UnlinkWithdrawals_Cascade(withdrawals, id) ==
    { w \in withdrawals : w.sip_id # id }

\* run_all_migrations.sql, line 27: sip_id ... ON DELETE SET NULL
UnlinkWithdrawals(withdrawals, id) ==
    { IF w.sip_id = id THEN [w EXCEPT !.sip_id = NoSip] ELSE w : w \in withdrawals }

\* SIPList.handleDelete, lines 803-811, confirmed by the user, and
\* sipAPI.deleteSIP (src/src/hooks/useSIPs.ts, lines 47-54)
DeleteSIP ==
    \E row \in sipsTable :
        /\ sipsTable' = sipsTable \ {row}
        /\ withdrawalsTable' = UnlinkWithdrawals(withdrawalsTable, row.id)
        /\ UNCHANGED << formData, formErrors >>
        /\ Rerender
        /\ AppFrame

NextPlans ==
    \/ SubmitAddSIP
    \/ SubmitEditSIP
    \/ SubmitPause
    \/ Resume

SpecPlans == InitApp /\ [][NextPlans]_vars

NextAddForm == SubmitFirstSIP

SpecAddForm == InitApp /\ [][NextAddForm]_vars

NextWithdrawals ==
    \/ SubmitAddWithdrawal
    \/ SubmitEditWithdrawal
    \/ DeleteSIP

SpecWithdrawals == InitWithdrawals /\ [][NextWithdrawals]_vars

-----------------------------------------------------------------------------
(* Properties *)

Tolerance == MoneyScale \div 100

\* the effective end date of a plan for an evaluation instant
EffectiveEnd(s, nowRead) ==
    IF s.is_paused /\ s.pause_date # NullDate THEN parseISO(s.pause_date) ELSE nowRead

Unpaused(s) == ~(s.is_paused /\ s.pause_date # NullDate)

\* posting date of the k-th installment, k = 1 for the start date
PostingDate(s, k) == addMonths(parseISO(s.start_date), k - 1)

RECURSIVE SumUnlocked(_)
SumUnlocked(seq) ==
    IF seq = << >> THEN 0
    ELSE (IF Head(seq).isLocked THEN 0 ELSE Head(seq).expectedValue)
             + SumUnlocked(Tail(seq))

OnDay(a, y, m, d) == a.y = y /\ a.m = m /\ a.d = d

\* C1: in every result of calculateAvailableWithdrawal, availableAmount +
\* lockedAmount equals totalValue within 0.01 currency units.
C1_AvailablePlusLockedIsTotal ==
    pc = "done" =>
        Abs(result.availableAmount + result.lockedAmount - result.totalValue)
            <= Tolerance

\* C2: calculateInstallmentsPaid returns 0 whenever the effective end date
\* (the pause date of a paused plan, otherwise now) is before the start date.
C2_ZeroWhenEndBeforeStart ==
    (pc # "idle" /\ compareAsc(EffectiveEnd(sip, now), parseISO(sip.start_date)) < 0)
        => totalInstallments = 0

\* C3: one evaluation uses one instant: the instant that counted the
\* installments is the effective end of an unpaused plan and the instant every
\* installment was classified against.
C3_SingleEvaluationInstant ==
    (pc = "done" /\ Len(result.installments) > 0) =>
        /\ \A k \in 1..Len(today) : today[k] = now
        /\ Unpaused(sip) => endDate = now

\* C4: installment k is reported locked exactly when the instant it was
\* classified at is before its own posting date plus the lock duration.
C4_LockAnchoredAtInstallment ==
    pc = "done" =>
        \A k \in 1..Len(result.installments) :
            result.installments[k].isLocked <=>
                compareAsc(today[k],
                           addMonths(PostingDate(sip, k),
                                     LockMonths(sip.lock_period_years))) < 0

\* the scenario of C5: unpaused plan started 2023-01-01 with a one-year lock,
\* evaluated completely on 2024-07-01
C5_Scenario ==
    /\ pc = "done"
    /\ sip.start_date = D(2023, 1, 1)
    /\ Unpaused(sip)
    /\ sip.lock_period_years = LockScale
    /\ OnDay(now, 2024, 7, 1)
    /\ OnDay(clock, 2024, 7, 1)

\* C5 as stated: the installments posted January to June 2023 are unlocked,
\* those posted on 2023-07-01 or later are locked, and availableAmount is the
\* sum of the unlocked installments' values.
C5_JulyInstallmentLocked ==
    C5_Scenario =>
        /\ \A k \in 1..Len(result.installments) :
               result.installments[k].isLocked <=>
                   compareAsc(PostingDate(sip, k), parseISO(D(2023, 7, 1))) >= 0
        /\ result.availableAmount = SumUnlocked(result.installments)

\* C5 amended: the installments posted 2023-01-01 to 2023-07-01 are unlocked
\* (the lock of the one posted 2023-07-01 ends on the evaluation day), those
\* posted on 2023-08-01 or later are locked, and availableAmount is the sum of
\* the unlocked installments' values.
C5_JulyInstallmentUnlocked ==
    C5_Scenario =>
        /\ Len(result.installments) = 19
        /\ \A k \in 1..Len(result.installments) :
               result.installments[k].isLocked <=>
                   compareAsc(PostingDate(sip, k), parseISO(D(2023, 8, 1))) >= 0
        /\ result.availableAmount = SumUnlocked(result.installments)

C5_Witness ==
    /\ C5_Scenario
    /\ sip.annual_return > 0
    /\ Len(result.installments) = 19
    /\ ~result.installments[7].isLocked
    /\ result.installments[8].isLocked

\* C6: with a lock duration of 0 or less, lockedAmount is 0 and
\* availableAmount is exactly totalValue.
C6_NoLockAllAvailable ==
    (pc = "done" /\ sip.lock_period_years <= 0) =>
        /\ result.lockedAmount = 0
        /\ result.availableAmount = result.totalValue

C6_Witness ==
    /\ pc = "done"
    /\ sip.lock_period_years <= 0
    /\ sip.annual_return > 0
    /\ totalInstallments >= 2
    /\ result.availableAmount > 0

\* number of posting dates addMonths(startDate, i), i >= 0, on or before end
PostingsUpTo(s, end) ==
    Cardinality({ k \in 1..MaxPostings : compareAsc(PostingDate(s, k), end) <= 0 })

\* C7 as stated: when the effective end is on or after the start date, the
\* count is the number of posting dates on or before the effective end.
C7_CountIsPostingDates ==
    (pc = "rendered"
       /\ compareAsc(EffectiveEnd(sip, now), parseISO(sip.start_date)) >= 0)
        => installmentsPaid = PostingsUpTo(sip, EffectiveEnd(sip, now))

\* C7 amended: the same, for a start date whose day-of-month is at most 28
\* (every month has that day, so no posting date is clamped).
C7_CountIsPostingDatesUpTo28 ==
    (pc = "rendered" /\ sip.start_date.d <= 28
       /\ compareAsc(EffectiveEnd(sip, now), parseISO(sip.start_date)) >= 0)
        => installmentsPaid = PostingsUpTo(sip, EffectiveEnd(sip, now))

C7_Witness ==
    /\ pc = "rendered"
    /\ sip.start_date = D(2024, 1, 1)
    /\ Unpaused(sip)
    /\ OnDay(now, 2024, 7, 1)
    /\ installmentsPaid = 7

\* C8: for an unpaused plan the count is never negative and never decreases
\* from one render to the next as the clock advances.
C8_CountMonotone ==
    [][ Unpaused(sip) =>
            (installmentsPaid' >= 0 /\ installmentsPaid' >= installmentsPaid) ]_vars

C8_Witness ==
    /\ pc = "rendered"
    /\ Unpaused(sip)
    /\ ticks > 0
    /\ installmentsPaid >= 2

\* C9: once a paused plan has been rendered, no later render changes its
\* installment count, its total invested or its expected value.
C9_PausedCountFrozen ==
    [][ (sip.is_paused /\ sip.pause_date # NullDate /\ ticks > 0) =>
            /\ installmentsPaid' = installmentsPaid
            /\ totalInvested' = totalInvested
            /\ expectedValue' = expectedValue ]_vars

C9_Witness ==
    /\ pc = "rendered"
    /\ sip.is_paused
    /\ compareAsc(now, parseISO(sip.pause_date)) > 0
    /\ ticks > 0
    /\ installmentsPaid >= 2

\* C10: the expected value of a plan with 0 installments is exactly 0,
\* whatever its amount and rate.
C10_ZeroInstallmentsZeroValue ==
    (pc # "idle" /\ totalInstallments = 0) =>
        (totalValue = 0 /\ (pc = "done" => result.totalValue = 0))

C10_Witness ==
    /\ pc = "done"
    /\ totalInstallments = 0
    /\ sip.annual_return > 0
    /\ sip.amount = 5000

\* C11: with annual rate 0 the expected value of n installments is exactly
\* amount x n, which is the total invested for the same amount and n.
C11_ZeroRateIsTotalInvested ==
    (pc # "idle" /\ sip.annual_return = 0) =>
        /\ totalValue = sip.amount * totalInstallments * MoneyScale
        /\ totalValue = calculateTotalInvested(sip.amount, totalInstallments)

C11_Witness ==
    /\ pc = "done"
    /\ sip.annual_return = 0
    /\ sip.amount = 5000
    /\ totalInstallments = 12
    /\ totalValue = 60000 * MoneyScale

\* the case of C12: 5000 per month at 15% for 12 installments
C12_Scenario ==
    /\ pc # "idle"
    /\ sip.amount = 5000
    /\ sip.annual_return = 15
    /\ totalInstallments = 12

CalendarDate(a) == [y |-> a.y, m |-> a.m, d |-> a.d]

\* C19: calculateInstallmentLockEndDate(D, Y) is null when Y <= 0 and
\* otherwise the calendar date D plus round(Y x 12) whole months, whatever the
\* host's offset from UTC.
C19_LockEndIsDatePlusMonths ==
    pc = "lock_done" =>
        lockRet.lockEndDate =
            IF lockArgs.lockPeriodYears <= 0 THEN NullDate
            ELSE CalendarDate(addMonths(parseISO(lockArgs.installmentDate),
                                        LockMonths(lockArgs.lockPeriodYears)))

\* C20: isInstallmentLocked is false when there is no lock end date (Y <= 0)
\* and otherwise true exactly when now is strictly before the lock end date, so
\* an installment whose lock end date equals now is unlocked.
C20_LockedIffStrictlyBefore ==
    pc = "lock_done" =>
        /\ lockArgs.lockPeriodYears <= 0 =>
               (lockRet.lockEndDate = NullDate /\ ~lockRet.isLocked)
        /\ lockArgs.lockPeriodYears > 0 =>
               (lockRet.isLocked <=>
                    getTime(lockRet.today) < getTime(parseISO(lockRet.lockEndDate)))
        /\ (lockArgs.lockPeriodYears > 0
               /\ lockRet.today = parseISO(lockRet.lockEndDate)) => ~lockRet.isLocked

C20_Witness ==
    /\ pc = "lock_done"
    /\ lockArgs.lockPeriodYears > 0
    /\ lockRet.today = parseISO(lockRet.lockEndDate)
    /\ ~lockRet.isLocked

ActivePlans(sips) == { s \in sips : s.status = "active" }

\* C13: the portfolio summary sums totalInvested and expectedValue over the
\* plans whose status is active only; an inactive or completed plan
\* contributes nothing to either total.
C13_OnlyActivePlansSummed ==
    pc = "app" =>
        /\ summary.total_invested = SumTotalInvested(ActivePlans(sipsTable), clock)
        /\ summary.expected_value = SumExpectedValue(ActivePlans(sipsTable), clock)

\* the figures of the plan list (SIPRow, lines 493-495), summed over the plans
RECURSIVE SumListTotalInvested(_, _)
SumListTotalInvested(sips, nowRead) ==
    IF sips = {} THEN 0
    ELSE LET s == CHOOSE x \in sips : TRUE
             n == calculateInstallmentsPaid(s.start_date, s.pause_date,
                                            s.is_paused, nowRead)
         IN  calculateTotalInvested(s.amount, n)
                 + SumListTotalInvested(sips \ {s}, nowRead)

RECURSIVE SumListExpectedValue(_, _)
SumListExpectedValue(sips, nowRead) ==
    IF sips = {} THEN 0
    ELSE LET s == CHOOSE x \in sips : TRUE
             n == calculateInstallmentsPaid(s.start_date, s.pause_date,
                                            s.is_paused, nowRead)
         IN  calculateExpectedValue(s.amount, s.annual_return, n)
                 + SumListExpectedValue(sips \ {s}, nowRead)

\* C14: the portfolio totals use each plan's own installment count (a paused
\* plan counts up to its pause date), so they equal the sum of the per-plan
\* figures shown in the plan list.
C14_PortfolioIsSumOfListFigures ==
    pc = "app" =>
        /\ summary.total_invested = SumListTotalInvested(sipsTable, clock)
        /\ summary.expected_value = SumListExpectedValue(sipsTable, clock)

\* the amount stored under a withdrawal id, 0 when there is no such record
AmountOf(withdrawals, id) ==
    IF \E w \in withdrawals : w.id = id
    THEN (CHOOSE w \in withdrawals : w.id = id).amount
    ELSE 0

\* C15: total_withdrawals is the sum of the amounts of all withdrawal records
\* whatever the status of the plan they are linked to (0 when there are none),
\* net_portfolio = total_invested - total_withdrawals and total_gain_loss =
\* expected_value - total_invested.
C15_WithdrawnNetAndGain ==
    pc = "app" =>
        /\ summary.total_withdrawals =
               AmountOf(withdrawalsTable, 1) + AmountOf(withdrawalsTable, 2)
        /\ withdrawalsTable = {} => summary.total_withdrawals = 0
        /\ summary.net_portfolio =
               summary.total_invested - summary.total_withdrawals
        /\ summary.total_gain_loss =
               summary.expected_value - summary.total_invested

C15_Witness ==
    /\ pc = "app"
    /\ \E w \in withdrawalsTable, s \in sipsTable :
           w.sip_id = s.id /\ s.status = "inactive" /\ w.amount = 9000 * MoneyScale
    /\ \E w \in withdrawalsTable : w.sip_id = NoSip /\ w.amount = 100 * MoneyScale
    /\ summary.total_withdrawals = 9100 * MoneyScale
    /\ summary.total_invested > 0
    /\ summary.net_portfolio < summary.total_invested
    /\ summary.total_gain_loss > 0

\* C16: no user operation on an existing plan changes its start_date.
C16_StartDateImmutable ==
    [][ \A r \in sipsTable : \A q \in sipsTable' :
            q.id = r.id => q.start_date = r.start_date ]_vars

\* the columns of a plan other than the pause columns are the same in r and q
SameButPause(r, q) ==
    /\ q.name = r.name
    /\ q.lock_period_years = r.lock_period_years
    /\ q.start_date = r.start_date
    /\ q.amount = r.amount
    /\ q.annual_return = r.annual_return
    /\ q.status = r.status

\* C17: every stored plan has a pause_date exactly when is_paused is true:
\* a created plan is not paused and has no pause_date, pausing stores the flag
\* with a date, resuming clears both, and a step that edits a plan's other
\* columns changes neither.
C17_PauseDateIffPaused ==
    [][ \A q \in sipsTable' :
            /\ (q.pause_date # NullDate) <=> q.is_paused
            /\ (\A r \in sipsTable : r.id # q.id) =>
                   (~q.is_paused /\ q.pause_date = NullDate)
            /\ \A r \in sipsTable : r.id = q.id =>
                   \/ q.is_paused = r.is_paused /\ q.pause_date = r.pause_date
                   \/ /\ ~r.is_paused /\ q.is_paused /\ q.pause_date # NullDate
                      /\ SameButPause(r, q)
                   \/ /\ r.is_paused /\ ~q.is_paused /\ q.pause_date = NullDate
                      /\ SameButPause(r, q) ]_vars

C17_Witness ==
    /\ pc = "app"
    /\ \E r \in sipsTable, q \in sipsTable :
           /\ r.id # q.id
           /\ r.is_paused /\ r.pause_date = D(2024, 3, 15) /\ r.status = "completed"
           /\ ~q.is_paused /\ q.pause_date = NullDate /\ q.start_date = D(2024, 5, 15)

\* C18: a withdrawal with a positive amount and a date that is not in the
\* future is accepted, whatever the plan it is linked to: the form never stays
\* open on such an input with an error.
C18_WithdrawalNotGated ==
    (/\ formData.form \in {"AddWithdrawalForm", "EditWithdrawalForm"}
     /\ formData.amount > 0
     /\ compareAsc(parseISO(formData.date), clock) <= 0)
        => formErrors = {}

\* the calendar date k months after the date string s: the same day of the
\* month, or the last day of a month that is too short for it
MonthsLater(s, k) ==
    LET idx == s.y * 12 + (s.m - 1) + k
        yy == idx \div 12
        mm == (idx % 12) + 1
        daysInMonth == getDaysInMonth(yy, mm)
    IN  [y |-> yy, m |-> mm, d |-> IF s.d > daysInMonth THEN daysInMonth ELSE s.d]

\* C21: the date of installment i is the start date plus i months: it keeps
\* the start date's day of the month, clamped to the last day of a shorter
\* month, never overflowing into the following month, and the clamping does
\* not accumulate.
C21_InstallmentDateIsAddMonths ==
    \A k \in 1..Len(installments) :
        installments[k].date = MonthsLater(sip.start_date, k - 1)

\* C24: each installment's own value is its contribution compounded for the
\* months it has been held, amount x (1 + rate/100/12)^monthsHeld with
\* monthsHeld = differenceInMonths(effective end, installment date); for a
\* rate above 0 an installment held one month is worth strictly more than its
\* contribution.
C24_ValueCompoundsMonthsHeld ==
    pc \in {"loop", "done"} =>
        \A k \in 1..Len(installments) :
            LET monthsHeld ==
                    differenceInMonths(endDate,
                                       addMonths(parseISO(sip.start_date), k - 1))
            IN  /\ Abs(installments[k].expectedValue
                         - TimesPow(sip.amount * MoneyScale,
                                    MathPow(sip.annual_return, Max(0, monthsHeld))))
                       <= Tolerance
                /\ monthsHeld <= 0 =>
                       installments[k].expectedValue = sip.amount * MoneyScale
                /\ (monthsHeld = 1 /\ sip.annual_return > 0) =>
                       installments[k].expectedValue > sip.amount * MoneyScale

\* SIPRow, line 493: the installment count the plan list shows for a stored plan
ListInstallmentsPaid(r, nowRead) ==
    calculateInstallmentsPaid(r.start_date, r.pause_date, r.is_paused, nowRead)

\* C25: resuming a paused plan adds no installments for the months between
\* the pause date and the resume date: right after the resume, when nothing
\* has accrued since, the plan's count is the count frozen at the pause date.
C25_ResumeAddsNoGapInstallments ==
    [][ \A r \in sipsTable : \A q \in sipsTable' :
            (q.id = r.id /\ r.is_paused /\ ~q.is_paused) =>
                ListInstallmentsPaid(q, clock') = ListInstallmentsPaid(r, clock) ]_vars

\* C26: the pause form issues a pause request only for a pause date that is
\* on or after the plan's start date and not after today; for a pause date
\* before the start date or in the future it shows an error and leaves the
\* stored plan unchanged.
C26_PauseOnlyBetweenStartAndToday ==
    [][ /\ \A r \in sipsTable : \A q \in sipsTable' :
               (q.id = r.id /\ ~r.is_paused /\ q.is_paused) =>
                   /\ compareAsc(parseISO(q.pause_date), parseISO(r.start_date)) >= 0
                   /\ compareAsc(parseISO(q.pause_date),
                                 parseISO(CalendarDate(clock))) <= 0
        /\ (formData'.form = "PauseSIPForm" /\ formErrors' # {}) =>
               sipsTable' = sipsTable ]_vars

\* C27: after any sequence of create, pause, resume and edit operations every
\* paused plan has pause_date >= start_date, so a plan paused with
\* installments accrued never shows zero installments.
C27_PausedPlanPauseNotBeforeStart ==
    pc = "app" =>
        \A r \in sipsTable :
            r.is_paused =>
                /\ compareAsc(parseISO(r.pause_date), parseISO(r.start_date)) >= 0
                /\ ListInstallmentsPaid(r, clock) >= 1

\* C30: deleting a plan deletes no withdrawal: the withdrawals linked to it
\* stay stored with their plan link set to null and the others stay as they
\* are, so total_withdrawals is unchanged while total_invested and
\* expected_value lose that plan's contribution.
C30_DeleteKeepsWithdrawals ==
    [][ \A r \in sipsTable :
            (\A q \in sipsTable' : q.id # r.id) =>
                /\ \A w \in withdrawalsTable :
                       [w EXCEPT !.sip_id = IF w.sip_id = r.id THEN NoSip
                                            ELSE w.sip_id] \in withdrawalsTable'
                /\ Cardinality(withdrawalsTable') = Cardinality(withdrawalsTable)
                /\ summary'.total_withdrawals = summary.total_withdrawals
                /\ summary'.total_invested =
                       summary.total_invested - SumTotalInvested({r}, clock)
                /\ summary'.expected_value =
                       summary.expected_value - SumExpectedValue({r}, clock) ]_vars

C30_Witness ==
    /\ pc = "app"
    /\ sipsTable = { r \in StoredPlans : r.id = 1 }
    /\ \E w \in withdrawalsTable, v \in withdrawalsTable :
           /\ w.sip_id = NoSip /\ w.amount = 9000 * MoneyScale
           /\ v.sip_id = 1 /\ v.amount = 100 * MoneyScale
    /\ summary.total_withdrawals = 9100 * MoneyScale
    /\ summary.total_invested = 6000 * MoneyScale

\* the fields of the add-plan form that the stated conditions refuse, with
\* today the host's own date
OffendingFields(data, nowRead) ==
    (IF Trim(data.name) = "" THEN {"name"} ELSE {})
    \cup (IF data.start_date = NullDate
              \/ compareAsc(parseISO(data.start_date),
                            parseISO(CalendarDate(nowRead))) > 0
          THEN {"start_date"} ELSE {})
    \cup (IF data.amount = EmptyField \/ data.amount < 100
          THEN {"amount"} ELSE {})
    \cup (IF data.annual_return = EmptyField \/ data.annual_return < 0
              \/ data.annual_return > 100
          THEN {"annual_return"} ELSE {})
    \cup (IF data.lock_period_years # EmptyField
              /\ (data.lock_period_years < 0
                    \/ data.lock_period_years > 10 * LockScale)
          THEN {"lock_period_years"} ELSE {})

\* C22: the add-plan form issues a create request only when the name is not
\* empty, the start date is present and not in the future, the amount is at
\* least 100, the annual return is in [0, 100] and the lock period, if given,
\* is in [0, 10] years; otherwise nothing is stored and an error is recorded
\* for each offending field.
C22_OnlyValidPlansCreated ==
    [][ /\ \A q \in sipsTable' :
               (\A r \in sipsTable : r.id # q.id) =>
                   OffendingFields(q, clock) = {}
        /\ formData'.form = "AddSIPForm" =>
               /\ sipsTable' = sipsTable
               /\ formErrors' # {}
               /\ formErrors' = OffendingFields(formData', clock) ]_vars

\* C28: for a paused plan, from one evaluation to a later one the totalValue
\* stays the same, an installment reported unlocked is never reported locked
\* again, availableAmount never decreases and lockedAmount never increases.
C28_PausedPlanMonotone ==
    [][ (pc # "done" /\ pc' = "done" /\ shown # NoResult /\ sip.is_paused) =>
            /\ result'.totalValue = shown.totalValue
            /\ Len(result'.installments) = Len(shown.installments)
            /\ \A k \in 1..Len(shown.installments) :
                   ~shown.installments[k].isLocked =>
                       ~result'.installments[k].isLocked
            /\ result'.availableAmount >= shown.availableAmount
            /\ result'.lockedAmount <= shown.lockedAmount ]_vars

C28_Witness ==
    /\ pc = "done"
    /\ sip.is_paused
    /\ result.totalValue = shown.totalValue
    /\ Len(result.installments) = 3
    /\ Len(shown.installments) = 3
    /\ shown.installments[1].isLocked /\ ~result.installments[1].isLocked
    /\ result.installments[3].isLocked
    /\ result.availableAmount > shown.availableAmount
    /\ 0 < result.lockedAmount /\ result.lockedAmount < shown.lockedAmount

\* the day the lock of a plan's last installment ends: the start date plus
\* n - 1 months plus round(12 Y) months
LastLockEnd(s, n) ==
    addMonths(addMonths(parseISO(s.start_date), n - 1),
              LockMonths(s.lock_period_years))

\* C29: for a paused plan with n >= 1 installments and a lock duration above
\* 0, an evaluation made at or after the lock end date of the last
\* installment reports every installment unlocked and lockedAmount 0.
C29_LocksExpire ==
    LET n == calculateInstallmentsPaid(sip.start_date, sip.pause_date,
                                       sip.is_paused, now)
    IN  (/\ pc = "done"
         /\ sip.is_paused
         /\ n >= 1
         /\ sip.lock_period_years > 0
         /\ compareAsc(now, LastLockEnd(sip, n)) >= 0)
            => /\ Len(result.installments) = n
               /\ \A k \in 1..n : ~result.installments[k].isLocked
               /\ result.lockedAmount = 0

C29_Witness ==
    /\ pc = "done"
    /\ sip.is_paused
    /\ sip.lock_period_years > 0
    /\ Len(result.installments) = 3
    /\ now = LastLockEnd(sip, Len(result.installments))
    /\ \A k \in 1..Len(result.installments) : ~result.installments[k].isLocked
    /\ result.lockedAmount = 0
    /\ shown.lockedAmount > 0

\* C23: when a SIGNED_OUT notification is delivered the query cache is
\* cleared, and when the signed-in user changes from one user to a different
\* user the cache keeps nothing of the former user; so when the provider and
\* the client agree on who is signed in and no notification is pending, the
\* cache holds no other user's rows.
C23_CacheIsolatedAcrossUsers ==
    [][ /\ (/\ authEvents # << >>
            /\ authEvents' = Tail(authEvents)
            /\ Head(authEvents).event = "SIGNED_OUT") => queryCache' = NoUser
        /\ (user # NoUser /\ user' # NoUser /\ user' # user) =>
               queryCache' \in { NoUser, user' }
        /\ (user' # NoUser /\ user' = authSession' /\ authEvents' = << >>) =>
               queryCache' \in { NoUser, user' } ]_vars

====
